---------------------------- MODULE Spec2Model ----------------------------
(***************************************************************************)
(* A model of the aphro backend: the like/match engine (crud.py), the chat *)
(* dispatcher and its connection manager (chat.py), the rate limiter and   *)
(* the refresh-token endpoints (main.py).  Every await of the source is a  *)
(* scheduling point, so every store operation is one atomic step and the   *)
(* steps of concurrent handlers interleave freely.                         *)
(***************************************************************************)
EXTENDS Integers, Sequences, FiniteSets, TLC

\* ------------------------------------------------------------------ bounds
NumUsers == 2
MaxLikeCalls == 2

Users == 1..NumUsers
LikeCalls == 1..MaxLikeCalls
NoUser == 0

VARIABLES
    likes,      \* likes_collection: the documents in insertion order
    lpc,        \* per create_like call: its position
    larg,       \* per create_like call: <<liker_id, liked_id>>
    lres,       \* per create_like call: the returned document
    lpre,       \* history: what the store held for the call's pair when it was called
    lalone      \* history: no other create_like call overlapped this one

likeVars == <<likes, lpc, larg, lres, lpre, lalone>>

\* bounds and state of the chat dispatcher
MaxConns == 2
MaxFrames == 1
MaxTokens == 2

Conns == 1..MaxConns
NoConn == 0
NoDoc == [from_user |-> NoUser, to_user |-> NoUser, content |-> 0]

VARIABLES
    active_connections, \* ConnectionManager.active_connections: user_id -> websocket
    messages,           \* messages_collection, in insertion order
    device_tokens,      \* device_tokens_collection: user_id -> its device tokens
    ws,                 \* per websocket: the position and locals of websocket_endpoint
    wout,               \* per websocket: the frames sent over it, in order
    pushed,             \* history: the calls of send_push_notification, <<token, content>>
    pushfailed,         \* history: the contents for which send_push_notification raised
    nframes,            \* the frames received so far, over all websockets
    due                 \* history: <<token, content>> for the device tokens the
                        \* recipient had when the message was stored

chatVars == <<active_connections, messages, device_tokens, ws, wout, pushed,
              pushfailed, nframes, due>>

\* bounds and state of the rate limiter
max_requests == 30
window == 60
TickStep == 30
MaxTime == 60
MaxLight == 2

NoHeader == "<absent>"
Headers == {NoHeader, "anonymous", "u1"}
Identities == {"anonymous", "u1"}

VARIABLES
    now,        \* time.time(), in seconds
    requests,   \* RateLimiterMiddleware.requests: user_id -> its timestamps
    response,   \* the answer to the last request: its user_id and status
    radmitted,  \* history: per user_id, the admissions of the trailing window
    heavy,      \* the user_id whose requests are unbounded in this run
    nlight      \* the requests of the other user_ids so far, at most MaxLight

rateVars == <<now, requests, response, radmitted, heavy, nlight>>

\* bounds and state of the refresh tokens
\* auth.REFRESH_TOKEN_EXPIRE_DAYS (main.py lines 138, 160); the auth module sets
\* its value, the model ranges it
REFRESH_TOKEN_EXPIRE_DAYS == 1
MaxDay == 2
MaxIssued == 3
MaxRefreshCalls == 2

RefreshCalls == 1..MaxRefreshCalls
NoToken == 0

\* the users who log in
LoginUsers == {1, NumUsers}

VARIABLES
    tokens_collection,  \* the refresh token documents
    today,              \* datetime.now(timezone.utc), in days
    issued,             \* the refresh tokens created so far: the next one is issued + 1
    rf,                 \* per refresh_token call: its position, locals and history
    lg,                 \* per user: the position and locals of the user's login call
    sweep,              \* cleanup_scheduler's iteration: its position and its `now`
    tz_aware,           \* whether the client decodes datetimes aware
    token_response,     \* the answer to the last login, refresh or logout
    consumed,           \* history: the tokens a completed refresh has exchanged
    revoked             \* history: the tokens a successful logout has deleted

tokenVars == <<tokens_collection, today, issued, rf, lg, sweep, tz_aware, token_response,
              consumed, revoked>>

\* bounds and state of the background loops
crossing_interval == 60
cleanup_interval == 3600
MaxLoopTime == 3600
MaxFails == 2

VARIABLES
    task_crossing,      \* the task of crossing_scheduler: position, timer and history
    task_cleanup,       \* the task of cleanup_scheduler: position, timer and history
    lifespan_pc,        \* the position of lifespan
    clock               \* the event loop's time, in seconds

loopVars == <<task_crossing, task_cleanup, lifespan_pc, clock>>

\* bounds and state of the crossing detection
radius_m == 100
MaxLocated == 3
GridStep == 60
MaxPos == 2

\* the latitudes users report: points of one meridian, in metres of arc north
\* of the first
Latitudes == {k * GridStep : k \in 0..MaxPos}

VARIABLES
    users_collection,   \* the user documents, in the order find returns them
    detected,           \* the pairs the last run of detect_crossings returned
    scanned             \* history: users_collection as that run found it

crossVars == <<users_collection, detected, scanned>>

notLike == <<chatVars, rateVars, tokenVars, loopVars, crossVars>>
notChat == <<likeVars, rateVars, tokenVars, loopVars, crossVars>>
notRate == <<likeVars, chatVars, tokenVars, loopVars, crossVars>>
notToken == <<likeVars, chatVars, rateVars, loopVars, crossVars>>
notLoop == <<likeVars, chatVars, rateVars, tokenVars, crossVars>>
notCross == <<likeVars, chatVars, rateVars, tokenVars, loopVars>>

\* ------------------------------------------------------------ store queries
\* likes_collection.find_one({"liker_id": a, "liked_id": b}) is not None
HasLike(store, a, b) ==
    \E i \in 1..Len(store) : store[i].liker_id = a /\ store[i].liked_id = b

\* the number of documents of the ordered pair
CountLike(store, a, b) ==
    Cardinality({i \in 1..Len(store) : store[i].liker_id = a /\ store[i].liked_id = b})

\* the query of line 60 with the pair the wrong way round
ExistingQueryReversed(store, liker_id, liked_id) == HasLike(store, liked_id, liker_id)

\* crud.create_like, line 60: existing
ExistingQuery(store, liker_id, liked_id) == HasLike(store, liker_id, liked_id)

\* the query of line 67 with liked_id in both fields
ReciprocalQueryWrongKey(store, liker_id, liked_id) == HasLike(store, liked_id, liked_id)

\* crud.create_like, line 67: reciprocal
ReciprocalQuery(store, liker_id, liked_id) == HasLike(store, liked_id, liker_id)

\* likes_collection.find({"liker_id": user_id}).to_list(None), the liked ids
RECURSIVE LikedBy(_, _)
LikedBy(store, user_id) ==
    IF store = <<>> THEN <<>>
    ELSE IF Head(store).liker_id = user_id
         THEN <<Head(store).liked_id>> \o LikedBy(Tail(store), user_id)
         ELSE LikedBy(Tail(store), user_id)

\* crud.get_matches, lines 75-80, over one snapshot of the store
RECURSIVE MatchLoop(_, _, _)
MatchLoop(store, user_id, given) ==
    IF given = <<>> THEN <<>>
    ELSE (IF HasLike(store, Head(given), user_id) THEN <<Head(given)>> ELSE <<>>)
         \o MatchLoop(store, user_id, Tail(given))

\* get_matches appending the like's liker_id field instead of its liked_id
RECURSIVE MatchLoopWrongField(_, _, _)
MatchLoopWrongField(store, user_id, given) ==
    IF given = <<>> THEN <<>>
    ELSE (IF HasLike(store, Head(given), user_id) THEN <<user_id>> ELSE <<>>)
         \o MatchLoopWrongField(store, user_id, Tail(given))

get_matches_wrong_field(store, user_id) ==
    MatchLoopWrongField(store, user_id, LikedBy(store, user_id))

get_matches(store, user_id) == MatchLoop(store, user_id, LikedBy(store, user_id))

SeqRange(s) == {s[i] : i \in 1..Len(s)}

matchesOf(user_id) == SeqRange(get_matches(likes, user_id))

\* ------------------------------------------------------------- create_like
LikeInit(store) ==
    /\ likes = store
    /\ lpc = [c \in LikeCalls |-> "idle"]
    /\ larg = [c \in LikeCalls |-> <<NoUser, NoUser>>]
    /\ lres = [c \in LikeCalls |-> "none"]
    /\ lpre = [c \in LikeCalls |-> [has |-> FALSE, recip |-> FALSE]]
    /\ lalone = [c \in LikeCalls |-> FALSE]

Running(c) == lpc[c] \in {"find", "insert", "reciprocal"}

\* the call create_like(liker_id, liked_id); calls take the slots in order
create_like_call(c, liker_id, liked_id) ==
    /\ lpc[c] = "idle"
    /\ \A d \in LikeCalls : d < c => lpc[d] # "idle"
    /\ lpc' = [lpc EXCEPT ![c] = "find"]
    /\ larg' = [larg EXCEPT ![c] = <<liker_id, liked_id>>]
    /\ lpre' = [lpre EXCEPT ![c] = [has |-> HasLike(likes, liker_id, liked_id),
                                    recip |-> HasLike(likes, liked_id, liker_id)]]
    /\ lalone' = [d \in LikeCalls |->
                     IF d = c THEN \A e \in LikeCalls : ~Running(e)
                     ELSE IF Running(d) THEN FALSE ELSE lalone[d]]
    /\ UNCHANGED <<notLike, likes, lres>>

\* lines 60-62
create_like_find(c) ==
    /\ lpc[c] = "find"
    /\ IF ExistingQuery(likes, larg[c][1], larg[c][2])
       THEN /\ lpc' = [lpc EXCEPT ![c] = "done"]
            /\ lres' = [lres EXCEPT ![c] = "alreadyLiked"]
       ELSE /\ lpc' = [lpc EXCEPT ![c] = "insert"]
            /\ lres' = lres
    /\ UNCHANGED <<notLike, likes, larg, lpre, lalone>>

\* line 64
create_like_insert(c) ==
    /\ lpc[c] = "insert"
    /\ likes' = Append(likes, [liker_id |-> larg[c][1], liked_id |-> larg[c][2]])
    /\ lpc' = [lpc EXCEPT ![c] = "reciprocal"]
    /\ UNCHANGED <<notLike, larg, lres, lpre, lalone>>

\* lines 67-70
create_like_reciprocal(c) ==
    /\ lpc[c] = "reciprocal"
    /\ lres' = [lres EXCEPT ![c] =
                  IF ReciprocalQuery(likes, larg[c][1], larg[c][2])
                  THEN "matched" ELSE "pending"]
    /\ lpc' = [lpc EXCEPT ![c] = "done"]
    /\ UNCHANGED <<notLike, likes, larg, lpre, lalone>>

LikeNext ==
    \/ \E c \in LikeCalls, a \in Users, b \in Users : create_like_call(c, a, b)
    \/ \E c \in LikeCalls : create_like_find(c)
    \/ \E c \in LikeCalls : create_like_insert(c)
    \/ \E c \in LikeCalls : create_like_reciprocal(c)

\* ------------------------------------------------------------------- chat
Fresh(user_id) ==
    [pc |-> "receive", user_id |-> user_id, content |-> 0, to_user |-> NoUser,
     given |-> <<>>, matches |-> <<>>, doc |-> NoDoc, target |-> NoConn,
     tokens |-> <<>>, end |-> "none"]

\* the device tokens of user_id when every user registered n devices (none, or
\* MaxTokens of them)
TokensOf(user_id, n) == [i \in 1..n |-> <<user_id, i>>]

ChatInit(registered) ==
    /\ active_connections = [u \in Users |-> NoConn]
    /\ messages = <<>>
    /\ \E n \in registered : device_tokens = [u \in Users |-> TokensOf(u, n)]
    /\ ws = [h \in Conns |-> [Fresh(NoUser) EXCEPT !.pc = "idle"]]
    /\ wout = [h \in Conns |-> <<>>]
    /\ pushed = {}
    /\ pushfailed = {}
    /\ nframes = 0
    /\ due = {}

\* ConnectionManager.disconnect, chat.py lines 16-18
disconnect(conns, user_id) == [conns EXCEPT ![user_id] = NoConn]

\* the except clause of websocket_endpoint, lines 64-65: only WebSocketDisconnect
\* is caught; any other exception leaves the coroutine without the cleanup
Raise(h, kind, where) ==
    /\ ws' = [ws EXCEPT ![h] = [Fresh(ws[h].user_id) EXCEPT !.pc = "ended", !.end = where,
                                                           !.doc = ws[h].doc]]
    /\ active_connections' =
         IF kind = "WebSocketDisconnect"
         THEN disconnect(active_connections, ws[h].user_id)
         ELSE active_connections

ExceptionKinds == {"WebSocketDisconnect", "Exception"}

\* an authorization that accepts every recipient the sender has liked
AuthorizedByOwnLike(to_user, matches, user_id) == HasLike(likes, user_id, to_user)

\* line 37: to_user in matches
Authorized(to_user, matches, user_id) == to_user \in SeqRange(matches)

\* an insert_one that is never awaited: nothing is stored
StoreNothing(store, doc) == store

\* line 49: messages_collection.insert_one(message_doc)
StoreMessage(store, doc) == Append(store, doc)

\* lines 27-28 and ConnectionManager.connect, lines 12-14
websocket_connect(h, user_id) ==
    /\ ws[h].pc = "idle"
    /\ \A g \in Conns : g < h => ws[g].pc # "idle"
    /\ ws' = [ws EXCEPT ![h] = Fresh(user_id)]
    /\ active_connections' = [active_connections EXCEPT ![user_id] = h]
    /\ UNCHANGED <<notChat, messages, device_tokens, wout, pushed, pushfailed, nframes, due>>

\* lines 31-33: a frame {to_user, content} arrives; every frame carries a
\* content of its own, the number of the frame
ws_receive(h, to_user) ==
    /\ ws[h].pc = "receive"
    /\ nframes < MaxFrames
    /\ nframes' = nframes + 1
    /\ ws' = [ws EXCEPT ![h] = [@ EXCEPT !.pc = "matches_find", !.to_user = to_user,
                                         !.content = nframes + 1]]
    /\ UNCHANGED <<notChat, active_connections, messages, device_tokens, wout, pushed, pushfailed, due>>

\* line 31 raises WebSocketDisconnect: the client went away
ws_receive_disconnect(h) ==
    /\ ws[h].pc = "receive"
    /\ Raise(h, "WebSocketDisconnect", "disconnect")
    /\ UNCHANGED <<notChat, messages, device_tokens, wout, pushed, pushfailed, nframes, due>>

\* line 31 raises another exception: the frame is not JSON
ws_receive_bad(h) ==
    /\ ws[h].pc = "receive"
    /\ Raise(h, "Exception", "bad_frame")
    /\ UNCHANGED <<notChat, messages, device_tokens, wout, pushed, pushfailed, nframes, due>>

\* lines 37-48, run when get_matches has returned: the check, and message_doc
Decide(w, matches) ==
    IF Authorized(w.to_user, matches, w.user_id)
    THEN [w EXCEPT !.pc = "insert", !.given = <<>>, !.matches = <<>>,
                   !.doc = [from_user |-> w.user_id, to_user |-> w.to_user,
                            content |-> w.content]]
    ELSE [w EXCEPT !.pc = "send_error", !.given = <<>>, !.matches = <<>>]

\* crud.get_matches, line 74
ws_matches_find(h) ==
    /\ ws[h].pc = "matches_find"
    /\ LET given == LikedBy(likes, ws[h].user_id) IN
         ws' = [ws EXCEPT ![h] =
                  IF given = <<>> THEN Decide(ws[h], <<>>)
                  ELSE [ws[h] EXCEPT !.pc = "matches_recip", !.given = given]]
    /\ UNCHANGED <<notChat, active_connections, messages, device_tokens, wout, pushed,
                   pushfailed, nframes, due>>

\* crud.get_matches, lines 76-79: one turn of the loop
ws_matches_recip(h) ==
    /\ ws[h].pc = "matches_recip"
    /\ LET like == Head(ws[h].given)
           matches == IF HasLike(likes, like, ws[h].user_id)
                      THEN Append(ws[h].matches, like) ELSE ws[h].matches
       IN ws' = [ws EXCEPT ![h] =
                   IF Tail(ws[h].given) = <<>> THEN Decide(ws[h], matches)
                   ELSE [ws[h] EXCEPT !.given = Tail(ws[h].given), !.matches = matches]]
    /\ UNCHANGED <<notChat, active_connections, messages, device_tokens, wout, pushed,
                   pushfailed, nframes, due>>

\* the frame {"error": ...} of line 38; re is history: the content it answers
ErrorFrame(content) == [error |-> TRUE, doc |-> NoDoc, re |-> content]

\* lines 38-39: the error frame goes out, and the loop continues
ws_send_error(h) ==
    /\ ws[h].pc = "send_error"
    /\ wout' = [wout EXCEPT ![h] = Append(@, ErrorFrame(ws[h].content))]
    /\ ws' = [ws EXCEPT ![h] = Fresh(ws[h].user_id)]
    /\ UNCHANGED <<notChat, active_connections, messages, device_tokens, pushed, pushfailed,
                   nframes, due>>

\* line 38 raises: the sender's own websocket is broken
ws_send_error_fails(h, kind) ==
    /\ ws[h].pc = "send_error"
    /\ Raise(h, kind, "error_send_failed")
    /\ UNCHANGED <<notChat, messages, device_tokens, wout, pushed, pushfailed, nframes, due>>

\* line 49, and the lookup of send_personal_message, line 21, which runs
\* before the next await
ws_insert(h) ==
    /\ ws[h].pc = "insert"
    /\ messages' = StoreMessage(messages, ws[h].doc)
    /\ LET websocket == active_connections[ws[h].to_user] IN
         ws' = [ws EXCEPT ![h] =
                  [@ EXCEPT !.target = websocket,
                            !.pc = IF websocket # NoConn THEN "deliver" ELSE "tokens"]]
    /\ due' = due \cup {<<t, ws[h].doc.content>> : t \in SeqRange(device_tokens[ws[h].to_user])}
    /\ UNCHANGED <<notChat, active_connections, device_tokens, wout, pushed, pushfailed, nframes>>

\* line 49 raises: the store is unavailable
ws_insert_fails(h) ==
    /\ ws[h].pc = "insert"
    /\ Raise(h, "Exception", "insert_failed")
    /\ UNCHANGED <<notChat, messages, device_tokens, wout, pushed, pushfailed, nframes, due>>

\* send_personal_message, line 23: websocket.send_json(message_doc) serializes
\* the document with json.dumps before it sends anything; message_doc holds
\* the datetime of line 46 (and the ObjectId insert_one gave it), so
\* json.dumps raises TypeError: nothing goes out and the exception leaves
\* websocket_endpoint
ws_deliver(h) ==
    /\ ws[h].pc = "deliver"
    /\ Raise(h, "Exception", "deliver_failed")
    /\ UNCHANGED <<notChat, messages, device_tokens, wout, pushed, pushfailed, nframes, due>>

\* line 55
ws_tokens(h) ==
    /\ ws[h].pc = "tokens"
    /\ LET tokens == device_tokens[ws[h].to_user] IN
         ws' = [ws EXCEPT ![h] =
                  IF tokens = <<>> THEN Fresh(ws[h].user_id)
                  ELSE [ws[h] EXCEPT !.pc = "push", !.tokens = tokens]]
    /\ UNCHANGED <<notChat, active_connections, messages, device_tokens, wout, pushed,
                   pushfailed, nframes, due>>

\* lines 56-62: one turn of the loop, send_push_notification returns
ws_push(h) ==
    /\ ws[h].pc = "push"
    /\ pushed' = pushed \cup {<<Head(ws[h].tokens), ws[h].doc.content>>}
    /\ ws' = [ws EXCEPT ![h] =
                IF Tail(ws[h].tokens) = <<>> THEN Fresh(ws[h].user_id)
                ELSE [ws[h] EXCEPT !.tokens = Tail(ws[h].tokens)]]
    /\ UNCHANGED <<notChat, active_connections, messages, device_tokens, wout, pushfailed,
                   nframes, due>>

\* lines 56-62: send_push_notification raises (notifications.py line 22)
ws_push_fails(h) ==
    /\ ws[h].pc = "push"
    /\ pushed' = pushed \cup {<<Head(ws[h].tokens), ws[h].doc.content>>}
    /\ pushfailed' = pushfailed \cup {ws[h].doc.content}
    /\ Raise(h, "Exception", "push_failed")
    /\ UNCHANGED <<notChat, messages, device_tokens, wout, nframes, due>>

\* main.register_device, lines 175-184: the upsert of {user_id, device_token};
\* the devices of a user are numbered in the order they are registered
register_device(user_id, device_token) ==
    /\ device_token = <<user_id, Len(device_tokens[user_id]) + 1>>
    /\ Len(device_tokens[user_id]) < MaxTokens
    /\ device_tokens' = [device_tokens EXCEPT ![user_id] = Append(@, device_token)]
    /\ UNCHANGED <<notChat, active_connections, messages, ws, wout, pushed, pushfailed,
                   nframes, due>>

WsNext ==
    \/ \E h \in Conns, u \in Users : websocket_connect(h, u)
    \/ \E h \in Conns, u \in Users : ws_receive(h, u)
    \/ \E h \in Conns : ws_receive_disconnect(h)
    \/ \E h \in Conns : ws_receive_bad(h)
    \/ \E h \in Conns : ws_matches_find(h)
    \/ \E h \in Conns : ws_matches_recip(h)
    \/ \E h \in Conns : ws_send_error(h)
    \/ \E h \in Conns, k \in ExceptionKinds : ws_send_error_fails(h, k)
    \/ \E h \in Conns : ws_insert(h)
    \/ \E h \in Conns : ws_insert_fails(h)
    \/ \E h \in Conns : ws_deliver(h)
    \/ \E h \in Conns : ws_tokens(h)
    \/ \E h \in Conns : ws_push(h)
    \/ \E h \in Conns : ws_push_fails(h)

\* ----------------------------------------------------------- rate limiter
RateInit(flooding) ==
    /\ now = 0
    /\ requests = [u \in Identities |-> <<>>]
    /\ response = [user_id |-> "", status |-> 0]
    /\ radmitted = [u \in Identities |-> <<>>]
    /\ heavy \in flooding
    /\ nlight = 0

\* one user_id floods the limiter; the others send MaxLight requests in all
Arrives(user_id) ==
    /\ user_id # heavy => nlight < MaxLight
    /\ nlight' = IF user_id # heavy THEN nlight + 1 ELSE nlight
    /\ heavy' = heavy

\* main.py line 30: headers.get(b"x-user-id", b"anonymous").decode()
UserIdOf(header) == IF header = NoHeader THEN "anonymous" ELSE header

Fresher(t, at) == at - t < window

\* a filter that keeps the timestamps exactly one window old
PruneInclusive(timestamps, at) ==
    SelectSeq(timestamps, LAMBDA t : at - t <= window)

\* line 33: [t for t in timestamps if now - t < self.window]
Prune(timestamps, at) ==
    SelectSeq(timestamps, LAMBDA t : Fresher(t, at))

\* a comparison that lets one request more through
OverLimitStrict(timestamps) == Len(timestamps) > max_requests

\* line 34: len(timestamps) >= self.max_requests
OverLimit(timestamps) == Len(timestamps) >= max_requests

\* RateLimiterMiddleware.__call__ for an http scope, lines 29-40; no await
\* separates the read of line 32 from the write of line 39
rate_limit_http(header) ==
    LET user_id == UserIdOf(header)
        timestamps == Prune(requests[user_id], now)
    IN /\ IF OverLimit(timestamps)
          THEN /\ response' = [user_id |-> user_id, status |-> 429]
               /\ UNCHANGED <<requests, radmitted>>
          ELSE /\ response' = [user_id |-> user_id, status |-> 200]
               /\ requests' = [requests EXCEPT ![user_id] = Append(timestamps, now)]
               /\ radmitted' = [radmitted EXCEPT ![user_id] = Append(@, now)]
       /\ Arrives(user_id)
       /\ response' # response \/ requests' # requests \/ nlight' # nlight
       /\ UNCHANGED <<notRate, now>>

\* lines 28 and 40: any other scope goes to the application uncounted
rate_limit_other(header) ==
    /\ response' = [user_id |-> UserIdOf(header), status |-> 101]
    /\ Arrives(UserIdOf(header))
    /\ response' # response \/ nlight' # nlight
    /\ UNCHANGED <<notRate, now, requests, radmitted>>

\* time passes; the history drops the admissions that left the trailing window
Tick ==
    /\ now + TickStep <= MaxTime
    /\ now' = now + TickStep
    /\ radmitted' = [u \in Identities |->
                       SelectSeq(radmitted[u], LAMBDA t : now' - t < window)]
    /\ UNCHANGED <<notRate, requests, response, heavy, nlight>>

RateNext ==
    \/ \E header \in Headers : rate_limit_http(header)
    \/ \E header \in Headers : rate_limit_other(header)
    \/ Tick

\* --------------------------------------------------------- refresh tokens
IdleCall ==
    [pc |-> "idle", old |-> NoToken, user_id |-> NoUser, new |-> NoToken, expires_at |-> 0,
     stored |-> FALSE, owner |-> NoUser, used |-> FALSE, alone |-> FALSE, pre |-> {}]

IdleLogin == [pc |-> "idle", token |-> NoToken, expires_at |-> 0]

IdleSweep == [pc |-> "idle", now |-> 0]

NoResponse == [op |-> "", refresh_token |-> NoToken, status |-> 0, new |-> NoToken]

\* database.py line 9: AsyncIOMotorClient(MONGO_URL) names no tz_aware, so the
\* client decodes datetimes naive unless the URI of MONGODB_URI sets
\* tz_aware=true; `configs` are the settings a run may start with
TokenInit(configs) ==
    /\ tokens_collection = {}
    /\ today = 0
    /\ issued = 0
    /\ rf = [c \in RefreshCalls |-> IdleCall]
    /\ lg = [u \in LoginUsers |-> IdleLogin]
    /\ sweep = IdleSweep
    /\ tz_aware \in configs
    /\ token_response = NoResponse
    /\ consumed = {}
    /\ revoked = {}

\* tokens_collection.find_one({"refresh_token": token}): the documents found
FindToken(store, token) == {d \in store : d.refresh_token = token}

\* main.py line 154: token_doc["expires_at"] < datetime.now(timezone.utc), the
\* right side an aware datetime; a naive expires_at cannot be compared with
\* it and the comparison raises TypeError
Expired(doc, at) ==
    IF ~tz_aware THEN "TypeError"
    ELSE IF doc.expires_at < at THEN "True" ELSE "False"

\* delete_many({"expires_at": {"$lt": now}}), line 73: the store compares
DeleteExpired(store, before) == {d \in store : ~(d.expires_at < before)}

\* a delete_one that is never awaited: nothing is deleted
DeleteNone(store, token) == store

\* tokens_collection.delete_one({"refresh_token": token}); auth.create_refresh_token
\* never repeats a token, so at most one document matches
DeleteOne(store, token) == {d \in store : d.refresh_token # token}

\* lines 138 and 160: datetime.now(timezone.utc) + timedelta(days=...)
ExpiresAt(at) == at + REFRESH_TOKEN_EXPIRE_DAYS

\* the document of lines 140-144 and 161
TokenDoc(user_id, token, expires_at) ==
    [user_id |-> user_id, refresh_token |-> token, expires_at |-> expires_at]

RunningRefresh(c) == rf[c].pc \in {"find", "delete", "insert"}

\* history: a step of another handler overlaps every running refresh call;
\* pre is the store as the call found it, kept while nothing overlaps the call
Overlapped(c) ==
    [d \in RefreshCalls |->
        IF d # c /\ RunningRefresh(d)
        THEN [rf[d] EXCEPT !.alone = FALSE, !.pre = {}] ELSE rf[d]]

\* login, lines 130-132, for a user whose password verifies: the request
\* arrives and waits for get_user_by_username; one login at a time per user
login_call(user_id) ==
    /\ lg[user_id].pc = "idle"
    /\ issued < MaxIssued
    /\ lg' = [lg EXCEPT ![user_id] = [IdleLogin EXCEPT !.pc = "find"]]
    /\ rf' = Overlapped(0)
    /\ UNCHANGED <<notToken, tokens_collection, today, issued, sweep, tz_aware,
                   token_response, consumed, revoked>>

\* lines 133-140: the user is found, the refresh token is created and its
\* expiry computed; the handler waits for insert_one
login_find(user_id) ==
    /\ lg[user_id].pc = "find"
    /\ issued < MaxIssued
    /\ issued' = issued + 1
    /\ lg' = [lg EXCEPT ![user_id] =
                [pc |-> "insert", token |-> issued + 1, expires_at |-> ExpiresAt(today)]]
    /\ rf' = Overlapped(0)
    /\ UNCHANGED <<notToken, tokens_collection, today, sweep, tz_aware, token_response,
                   consumed, revoked>>

\* lines 140-146: the document is inserted and the tokens are returned
login_insert(user_id) ==
    /\ lg[user_id].pc = "insert"
    /\ tokens_collection' =
         tokens_collection \cup {TokenDoc(user_id, lg[user_id].token, lg[user_id].expires_at)}
    /\ token_response' = [op |-> "login", refresh_token |-> NoToken, status |-> 200,
                          new |-> lg[user_id].token]
    /\ lg' = [lg EXCEPT ![user_id] = IdleLogin]
    /\ rf' = Overlapped(0)
    /\ UNCHANGED <<notToken, today, issued, sweep, tz_aware, consumed, revoked>>

\* the request refresh_token(old_refresh_token) arrives; the calls take the
\* lowest free slot
refresh_call(c, old) ==
    /\ rf[c].pc = "idle"
    /\ \A d \in RefreshCalls : d < c => rf[d].pc # "idle"
    /\ LET found == FindToken(tokens_collection, old) IN
         rf' = [Overlapped(c) EXCEPT ![c] =
                  [IdleCall EXCEPT
                     !.pc = "find", !.old = old,
                     !.stored = \E d \in found : ~(d.expires_at < today),
                     !.owner = IF found = {} THEN NoUser
                               ELSE (CHOOSE d \in found : TRUE).user_id,
                     !.used = old \in consumed,
                     !.alone = \A d \in RefreshCalls : ~RunningRefresh(d),
                     !.pre = IF \A d \in RefreshCalls : ~RunningRefresh(d)
                             THEN tokens_collection ELSE {}]]
    /\ UNCHANGED <<notToken, tokens_collection, today, issued, lg, sweep, tz_aware,
                   token_response, consumed, revoked>>

\* the answer of a refresh_token call that ends without a new token: the
\* HTTPException of line 155 (401), or an exception nothing handles (500)
RefreshFails(c, status) ==
    /\ rf' = [Overlapped(c) EXCEPT ![c] = IdleCall]
    /\ token_response' = [op |-> "refresh", refresh_token |-> rf[c].old,
                          status |-> status, new |-> NoToken]

\* lines 153-157: `not token_doc` is looked at first, and the comparison of
\* line 154 only for a document that was found
refresh_find(c) ==
    /\ rf[c].pc = "find"
    /\ LET found == FindToken(tokens_collection, rf[c].old) IN
         IF found = {} THEN RefreshFails(c, 401)
         ELSE LET token_doc == CHOOSE d \in found : TRUE IN
                CASE Expired(token_doc, today) = "TypeError" -> RefreshFails(c, 500)
                  [] Expired(token_doc, today) = "True" -> RefreshFails(c, 401)
                  [] OTHER ->
                       /\ rf' = [Overlapped(c) EXCEPT ![c] =
                                   [rf[c] EXCEPT !.pc = "delete",
                                                 !.user_id = token_doc.user_id]]
                       /\ token_response' = token_response
    /\ UNCHANGED <<notToken, tokens_collection, today, issued, lg, sweep, tz_aware,
                   consumed, revoked>>

\* lines 157-161: the delete, then the new token and its expiry; the handler
\* waits for insert_one
refresh_delete(c) ==
    /\ rf[c].pc = "delete"
    /\ issued < MaxIssued
    /\ tokens_collection' = DeleteOne(tokens_collection, rf[c].old)
    /\ issued' = issued + 1
    /\ rf' = [Overlapped(c) EXCEPT ![c] =
                [rf[c] EXCEPT !.pc = "insert", !.new = issued + 1,
                              !.expires_at = ExpiresAt(today)]]
    /\ UNCHANGED <<notToken, today, lg, sweep, tz_aware, token_response, consumed, revoked>>

\* lines 161-163: the document of line 161, its expiry the one line 160
\* computed, is inserted and the tokens are returned
refresh_insert(c) ==
    /\ rf[c].pc = "insert"
    /\ tokens_collection' =
         tokens_collection \cup {TokenDoc(rf[c].user_id, rf[c].new, rf[c].expires_at)}
    /\ rf' = [Overlapped(c) EXCEPT ![c] = IdleCall]
    /\ token_response' = [op |-> "refresh", refresh_token |-> rf[c].old, status |-> 200,
                          new |-> rf[c].new]
    /\ consumed' = consumed \cup {rf[c].old}
    /\ UNCHANGED <<notToken, today, issued, lg, sweep, tz_aware, revoked>>

\* logout, lines 165-170
logout(token) ==
    /\ tokens_collection' = DeleteOne(tokens_collection, token)
    /\ token_response' =
         [op |-> "logout", refresh_token |-> token,
          status |-> IF FindToken(tokens_collection, token) = {} THEN 404 ELSE 200,
          new |-> NoToken]
    /\ token_response' # token_response \/ tokens_collection' # tokens_collection
    /\ rf' = Overlapped(0)
    /\ revoked' = IF FindToken(tokens_collection, token) = {} THEN revoked
                   ELSE revoked \cup {token}
    /\ UNCHANGED <<notToken, today, issued, lg, sweep, tz_aware, consumed>>

\* cleanup_scheduler, lines 71-73: an iteration reads the clock and waits for
\* delete_many
cleanup_now ==
    /\ sweep.pc = "idle"
    /\ sweep' = [pc |-> "delete", now |-> today]
    /\ rf' = Overlapped(0)
    /\ UNCHANGED <<notToken, tokens_collection, today, issued, lg, tz_aware, token_response,
                   consumed, revoked>>

\* lines 73-74: delete_many runs with the `now` of line 72
cleanup_delete_many ==
    /\ sweep.pc = "delete"
    /\ tokens_collection' = DeleteExpired(tokens_collection, sweep.now)
    /\ sweep' = IdleSweep
    /\ rf' = Overlapped(0)
    /\ UNCHANGED <<notToken, today, issued, lg, tz_aware, token_response, consumed, revoked>>

\* a day ends
NextDay ==
    /\ today < MaxDay
    /\ today' = today + 1
    /\ rf' = Overlapped(0)
    /\ UNCHANGED <<notToken, tokens_collection, issued, lg, sweep, tz_aware, token_response,
                   consumed, revoked>>

\* one refresh_token call at a time, beside logins of two users, logouts,
\* sweeps and days
TokenNext ==
    \/ \E u \in LoginUsers : login_call(u)
    \/ \E u \in LoginUsers : login_find(u)
    \/ \E u \in LoginUsers : login_insert(u)
    \/ \E t \in 1..MaxIssued : refresh_call(1, t)
    \/ refresh_find(1)
    \/ refresh_delete(1)
    \/ refresh_insert(1)
    \/ \E t \in 1..MaxIssued : logout(t)
    \/ cleanup_now
    \/ cleanup_delete_many
    \/ NextDay

\* -------------------------------------------------------- background loops
\* a task that asyncio.create_task has just made (lines 76-77)
CreatedTask ==
    [pc |-> "created", deadline |-> 0, failed |-> FALSE, fails |-> 0, must_cancel |-> FALSE]

LoopInit ==
    /\ task_crossing = CreatedTask
    /\ task_cleanup = CreatedTask
    /\ lifespan_pc = "yield"
    /\ clock = 0

\* the task has ended: cancelled, or by an exception that left its coroutine
Done(task) == task.pc \in {"cancelled", "raised"}

\* the task can take a step of its own code: it is not done and no
\* cancellation waits for it
Runnable(task) == ~Done(task) /\ ~task.must_cancel

\* the first step of the coroutine, up to its first await (lines 60-62, 71-73)
Start(task) == [task EXCEPT !.pc = "run"]

\* the awaited run returns: the loop goes on to asyncio.sleep(interval)
RunReturns(task, interval) ==
    [task EXCEPT !.pc = "sleep", !.deadline = clock + interval, !.failed = FALSE,
                 !.fails = 0]

\* a loop without a try around its run: the exception leaves the coroutine
RunRaisesUncaught(task, interval) ==
    [task EXCEPT !.pc = "raised", !.failed = TRUE,
                 !.fails = IF @ < MaxFails THEN @ + 1 ELSE @]

\* a try that catches nothing: the run's exception ends the task
RunRaisesThroughTry(task, interval) == [task EXCEPT !.pc = "raised", !.failed = TRUE]

\* the awaited run raises an Exception inside try/except Exception (lines
\* 61-66): it is printed and the loop goes on to asyncio.sleep(interval)
RunRaisesCaught(task, interval) ==
    [task EXCEPT !.pc = "sleep", !.deadline = clock + interval, !.failed = TRUE,
                 !.fails = IF @ < MaxFails THEN @ + 1 ELSE @]

\* asyncio.sleep(interval) returns: the next iteration, up to its await
Wake(task) == [task EXCEPT !.pc = "run", !.deadline = 0]

\* task.cancel(): nothing for a task that is done, else the task is to get a
\* CancelledError at the await it is suspended at
Cancel(task) == IF Done(task) THEN task ELSE [task EXCEPT !.must_cancel = TRUE]

\* the CancelledError arrives; it is no Exception, so line 65 lets it through
Cancelled(task) == [task EXCEPT !.pc = "cancelled", !.deadline = 0, !.must_cancel = FALSE]

crossing_start ==
    /\ Runnable(task_crossing) /\ task_crossing.pc = "created"
    /\ task_crossing' = Start(task_crossing)
    /\ UNCHANGED <<notLoop, task_cleanup, lifespan_pc, clock>>

\* line 62 returns; lines 63-64, 67
crossing_run_ok ==
    /\ Runnable(task_crossing) /\ task_crossing.pc = "run"
    /\ task_crossing' = RunReturns(task_crossing, crossing_interval)
    /\ UNCHANGED <<notLoop, task_cleanup, lifespan_pc, clock>>

\* line 62 raises; lines 65-67
crossing_run_fails ==
    /\ Runnable(task_crossing) /\ task_crossing.pc = "run"
    /\ task_crossing' = RunRaisesCaught(task_crossing, crossing_interval)
    /\ UNCHANGED <<notLoop, task_cleanup, lifespan_pc, clock>>

\* line 67 returns after 60 s; lines 60-62
crossing_wake ==
    /\ Runnable(task_crossing) /\ task_crossing.pc = "sleep"
    /\ task_crossing.deadline <= clock
    /\ task_crossing' = Wake(task_crossing)
    /\ UNCHANGED <<notLoop, task_cleanup, lifespan_pc, clock>>

crossing_cancelled ==
    /\ task_crossing.must_cancel
    /\ task_crossing' = Cancelled(task_crossing)
    /\ UNCHANGED <<notLoop, task_cleanup, lifespan_pc, clock>>

cleanup_start ==
    /\ Runnable(task_cleanup) /\ task_cleanup.pc = "created"
    /\ task_cleanup' = Start(task_cleanup)
    /\ UNCHANGED <<notLoop, task_crossing, lifespan_pc, clock>>

\* line 73 returns; line 74
cleanup_run_ok ==
    /\ Runnable(task_cleanup) /\ task_cleanup.pc = "run"
    /\ task_cleanup' = RunReturns(task_cleanup, cleanup_interval)
    /\ UNCHANGED <<notLoop, task_crossing, lifespan_pc, clock>>

\* line 73 raises: no try surrounds it
cleanup_run_fails ==
    /\ Runnable(task_cleanup) /\ task_cleanup.pc = "run"
    /\ task_cleanup' = RunRaisesUncaught(task_cleanup, cleanup_interval)
    /\ UNCHANGED <<notLoop, task_crossing, lifespan_pc, clock>>

\* line 74 returns after 3600 s; lines 71-73
cleanup_wake ==
    /\ Runnable(task_cleanup) /\ task_cleanup.pc = "sleep"
    /\ task_cleanup.deadline <= clock
    /\ task_cleanup' = Wake(task_cleanup)
    /\ UNCHANGED <<notLoop, task_crossing, lifespan_pc, clock>>

cleanup_cancelled ==
    /\ task_cleanup.must_cancel
    /\ task_cleanup' = Cancelled(task_cleanup)
    /\ UNCHANGED <<notLoop, task_crossing, lifespan_pc, clock>>

\* the timers that are running
Timers ==
    {t.deadline : t \in {t \in {task_crossing, task_cleanup} : t.pc = "sleep" /\ Runnable(t)}}

\* time passes up to the next timer; a timer that is due fires first
Advance ==
    /\ Timers # {}
    /\ \A d \in Timers : d > clock
    /\ \E d \in Timers : (\A e \in Timers : d <= e) /\ d <= MaxLoopTime /\ clock' = d
    /\ UNCHANGED <<notLoop, task_crossing, task_cleanup, lifespan_pc>>

\* lines 82-83: the application shuts down
shutdown_cancel ==
    /\ lifespan_pc = "yield"
    /\ task_crossing' = Cancel(task_crossing)
    /\ task_cleanup' = Cancel(task_cleanup)
    /\ lifespan_pc' = "await_crossing"
    /\ UNCHANGED <<notLoop, clock>>

\* what lifespan does when the task it awaits is done: CancelledError is
\* caught (lines 86, 90), any other exception of the task leaves lifespan
AfterAwait(task, next) == IF task.pc = "cancelled" THEN next ELSE "raised"

\* lines 84-87
shutdown_await_crossing ==
    /\ lifespan_pc = "await_crossing"
    /\ Done(task_crossing)
    /\ lifespan_pc' = AfterAwait(task_crossing, "await_cleanup")
    /\ UNCHANGED <<notLoop, task_crossing, task_cleanup, clock>>

\* lines 88-91
shutdown_await_cleanup ==
    /\ lifespan_pc = "await_cleanup"
    /\ Done(task_cleanup)
    /\ lifespan_pc' = AfterAwait(task_cleanup, "done")
    /\ UNCHANGED <<notLoop, task_crossing, task_cleanup, clock>>

LoopNext ==
    \/ crossing_start
    \/ crossing_run_ok
    \/ crossing_run_fails
    \/ crossing_wake
    \/ crossing_cancelled
    \/ cleanup_start
    \/ cleanup_run_ok
    \/ cleanup_run_fails
    \/ cleanup_wake
    \/ cleanup_cancelled
    \/ Advance
    \/ shutdown_cancel
    \/ shutdown_await_crossing
    \/ shutdown_await_cleanup

\* ------------------------------------------------------ crossing detection
\* a user document without a location; its _id is its place in the collection
NewUser(id) == [id |-> id, located |-> FALSE, lat |-> 0, lng |-> 0]

CrossInit ==
    /\ users_collection = [id \in 1..MaxLocated |-> NewUser(id)]
    /\ detected = <<>>
    /\ scanned = users_collection

\* crud.haversine for two points of one meridian (lon1 = lon2): a is
\* sin(d_phi/2)^2, c is |d_phi| and R * c the length of the arc between them
haversine(lat1, lon1, lat2, lon2) ==
    IF lat1 >= lat2 THEN lat1 - lat2 ELSE lat2 - lat1

\* line 86: find({"location": {"$exists": True}})
FindLocated(coll) == SelectSeq(coll, LAMBDA d : d.located)

\* an inner loop over the whole of users
InnerFromFirst(i) == 1

\* line 90: users[i + 1:]
InnerFrom(i) == i + 1

RECURSIVE InnerLoop(_, _, _, _)
\* lines 90-94, from user_b = users[j] on
InnerLoop(users, i, j, found) ==
    IF j > Len(users) THEN found
    ELSE InnerLoop(users, i, j + 1,
           IF haversine(users[i].lat, users[i].lng, users[j].lat, users[j].lng) <= radius_m
           THEN Append(found, <<users[i].id, users[j].id>>)
           ELSE found)

RECURSIVE OuterLoop(_, _, _)
\* lines 88-94, from user_a = users[i] on
OuterLoop(users, i, found) ==
    IF i > Len(users) THEN found
    ELSE OuterLoop(users, i + 1, InnerLoop(users, i, InnerFrom(i), found))

\* crud.update_location, lines 23-27 (all users on the meridian lng = 0)
update_location(user_id, lat) ==
    /\ users_collection' = [users_collection EXCEPT ![user_id] =
                               [@ EXCEPT !.located = TRUE, !.lat = lat, !.lng = 0]]
    /\ users_collection' # users_collection
    /\ UNCHANGED <<notCross, detected, scanned>>

\* crud.detect_crossings, lines 85-95
detect_crossings ==
    /\ detected' = OuterLoop(FindLocated(users_collection), 1, <<>>)
    /\ scanned' = users_collection
    /\ <<detected', scanned'>> # <<detected, scanned>>
    /\ UNCHANGED <<notCross, users_collection>>

CrossNext ==
    \/ \E u \in 1..MaxLocated, lat \in Latitudes : update_location(u, lat)
    \/ detect_crossings

\* --------------------------------------------------------- specifications
vars == <<likeVars, chatVars, rateVars, tokenVars, loopVars, crossVars>>

Init == LikeInit(<<>>) /\ ChatInit({0}) /\ RateInit({"u1"}) /\ TokenInit({FALSE}) /\ LoopInit
        /\ CrossInit

\* the like engine alone
SpecLike == Init /\ [][LikeNext]_vars

\* the chat dispatcher, with like calls running beside it
\* The store of the chat specification holds the like of user 1 for user 2
\* when it starts, and the create_like call of user 2 for user 1 runs beside
\* the handlers: their match can form at any point of a send.
OneLike == <<[liker_id |-> 1, liked_id |-> 2]>>

InitChat == LikeInit(OneLike) /\ ChatInit({0, MaxTokens}) /\ RateInit({"u1"}) /\ TokenInit({FALSE}) /\ LoopInit
        /\ CrossInit

ChatNext ==
    \/ WsNext
    \/ create_like_call(1, 2, 1)
    \/ create_like_find(1)
    \/ create_like_insert(1)
    \/ create_like_reciprocal(1)

SpecChat == InitChat /\ [][ChatNext]_vars

\* the chat between two matched users, the recipient's devices being
\* registered while messages are handled
BothLikes == <<[liker_id |-> 1, liked_id |-> 2], [liker_id |-> 2, liked_id |-> 1]>>

\* the users who register devices
Registrants == {2}

InitChatDevices == LikeInit(BothLikes) /\ ChatInit({0}) /\ RateInit({"u1"}) /\ TokenInit({FALSE})
        /\ LoopInit /\ CrossInit

ChatDevicesNext ==
    \/ WsNext
    \/ \E u \in Registrants, n \in 1..MaxTokens : register_device(u, <<u, n>>)

SpecChatDevices == InitChatDevices /\ [][ChatDevicesNext]_vars

\* the rate limiter, flooded by either user_id
InitRate == LikeInit(<<>>) /\ ChatInit({0}) /\ RateInit(Identities) /\ TokenInit({FALSE}) /\ LoopInit
        /\ CrossInit

SpecRate == InitRate /\ [][RateNext]_vars

\* the refresh tokens
InitToken == LikeInit(<<>>) /\ ChatInit({0}) /\ RateInit({"u1"}) /\ TokenInit(BOOLEAN)
        /\ LoopInit /\ CrossInit

SpecToken == InitToken /\ [][TokenNext]_vars

\* logouts beside the logins and refreshes of one user, over the days
RevokeNext ==
    \/ login_call(1)
    \/ login_find(1)
    \/ login_insert(1)
    \/ \E t \in 1..MaxIssued : refresh_call(1, t)
    \/ refresh_find(1)
    \/ refresh_delete(1)
    \/ refresh_insert(1)
    \/ \E t \in 1..MaxIssued : logout(t)
    \/ NextDay

SpecRevoke == InitToken /\ [][RevokeNext]_vars

\* refresh_token calls overlapping one another, beside logins
TokenRaceNext ==
    \/ login_call(1)
    \/ login_find(1)
    \/ login_insert(1)
    \/ \E c \in RefreshCalls, t \in 1..MaxIssued : refresh_call(c, t)
    \/ \E c \in RefreshCalls : refresh_find(c)
    \/ \E c \in RefreshCalls : refresh_delete(c)
    \/ \E c \in RefreshCalls : refresh_insert(c)

SpecTokenRace == InitToken /\ [][TokenRaceNext]_vars

\* runs of detect_crossings between updates of the users' locations
SpecCross == Init /\ [][CrossNext]_vars

\* the background loops and the shutdown of lifespan
SpecLoops == Init /\ [][LoopNext]_vars

\* the event loop lets time pass, fires the timers that are due and delivers
\* the cancellations that were asked for
SpecLoopsLive ==
    /\ SpecLoops
    /\ WF_vars(Advance)
    /\ WF_vars(crossing_wake) /\ WF_vars(cleanup_wake)
    /\ WF_vars(crossing_cancelled) /\ WF_vars(cleanup_cancelled)

\* ---------------------------------------------------------------- claims
Reversed(p, q) == larg[q] = <<larg[p][2], larg[p][1]>>

Wrote(c) == lpc[c] = "done" /\ lres[c] \in {"matched", "pending"}

\* C1: of a like(A,B) and a like(B,A) (A # B) that both went through their
\* three store operations, in any interleaving, at least one returns matched:
\* never both pending.
C1_AtLeastOneMatched ==
    \A p \in LikeCalls, q \in LikeCalls :
        (Wrote(p) /\ Wrote(q) /\ larg[p][1] # larg[p][2] /\ Reversed(p, q))
            => (lres[p] = "matched" \/ lres[q] = "matched")

\* two overlapping mutual likes with no prior edge, one pending and one matched
C1_Witness ==
    \E p \in LikeCalls, q \in LikeCalls :
        /\ Wrote(p) /\ Wrote(q) /\ larg[p][1] # larg[p][2] /\ Reversed(p, q)
        /\ ~lalone[p] /\ ~lalone[q]
        /\ ~lpre[p].has /\ ~lpre[p].recip /\ ~lpre[q].has /\ ~lpre[q].recip
        /\ lres[p] = "pending" /\ lres[q] = "matched"

\* C2: like(B,A) called once like(A,B) has completed, with no edge B->A before
\* and no other call overlapping it, returns matched, and afterwards each of
\* A and B is in the other's matches.
C2_SecondLikeMatches ==
    \A q \in LikeCalls :
        (lpc[q] = "done" /\ lalone[q] /\ larg[q][1] # larg[q][2]
            /\ lpre[q].recip /\ ~lpre[q].has)
            => /\ lres[q] = "matched"
               /\ larg[q][2] \in matchesOf(larg[q][1])
               /\ larg[q][1] \in matchesOf(larg[q][2])

C2_Witness ==
    \E q \in LikeCalls :
        /\ lpc[q] = "done" /\ lalone[q] /\ larg[q][1] # larg[q][2]
        /\ lpre[q].recip /\ ~lpre[q].has
        /\ lres[q] = "matched"
        /\ Len(likes) = 2

\* C3: the like store never holds two documents of one ordered pair.
C3_UniquePerOrderedPair ==
    \A a \in Users, b \in Users : CountLike(likes, a, b) <= 1

\* C4: a like(A,B) called when the edge A->B is already stored returns
\* alreadyLiked, and no step of that call changes the like store.
C4_SecondLikeIsNoOp ==
    /\ [](\A q \in LikeCalls :
            (lpc[q] = "done" /\ lpre[q].has) => lres[q] = "alreadyLiked")
    /\ [][\A q \in LikeCalls :
            (lpre'[q].has /\ lpc'[q] # lpc[q]) => likes' = likes]_vars

C4_Witness ==
    \E q \in LikeCalls :
        lpc[q] = "done" /\ lpre[q].has /\ lres[q] = "alreadyLiked"

\* the messages stored, the documents whose live delivery was attempted (the
\* handler is at line 23, or line 23 ended it), the contents pushed
Stored == SeqRange(messages)
DeliveryAttempted ==
    {ws[h].doc : h \in {g \in Conns : ws[g].pc = "deliver" \/ ws[g].end = "deliver_failed"}}
ErrorsSent == UNION {{f.re : f \in {g \in SeqRange(wout[h]) : g.error}} : h \in Conns}
PushedContents == {p[2] : p \in pushed}
StoredContents == {m.content : m \in Stored}

Matched(a, b) == HasLike(likes, a, b) /\ HasLike(likes, b, a)

\* C5: every stored message is between two matched users; a frame answered
\* with the error frame is never stored, handed to live delivery or pushed; and the step
\* that sends the error frame leaves the handler waiting for the next frame
\* with the presence map as it was.
C5_OnlyMatchedMessages ==
    /\ [](/\ \A m \in Stored : Matched(m.from_user, m.to_user)
          /\ \A c \in ErrorsSent :
                /\ c \notin StoredContents
                /\ c \notin {d.content : d \in DeliveryAttempted}
                /\ c \notin PushedContents)
    /\ [][\A h \in Conns :
            (ws[h].pc = "send_error" /\ ws'[h].pc \notin {"send_error", "ended"})
                => /\ ws'[h].pc = "receive"
                   /\ wout'[h] = Append(wout[h], ErrorFrame(ws[h].content))
                   /\ active_connections' = active_connections
                   /\ messages' = messages /\ pushed' = pushed]_vars

\* a frame to a user who is no match was answered with the error frame, and
\* the handler is registered and waiting for the next frame
C5_Witness ==
    \E h \in Conns :
        /\ ws[h].pc = "receive"
        /\ \E i \in 1..Len(wout[h]) : wout[h][i].error
        /\ active_connections[ws[h].user_id] = h
        /\ messages = <<>>

\* C6: a document handed to live delivery, and a content pushed, is in the
\* message store already; and a handler that a failed delivery or a failed
\* push ended leaves its message in the store.
C6_PersistBeforeDelivery ==
    /\ DeliveryAttempted \subseteq Stored
    /\ PushedContents \subseteq StoredContents
    /\ \A h \in Conns :
          ws[h].end \in {"deliver_failed", "push_failed"} => ws[h].doc \in Stored

\* the live delivery of a message to its connected recipient failed, and the
\* message is stored
C6_Witness ==
    \E h \in Conns :
        /\ ws[h].end = "deliver_failed"
        /\ active_connections[ws[h].doc.to_user] # NoConn
        /\ ws[h].doc \in Stored

\* no handler is between the insert of m and the end of its fan-out
Finished(m) ==
    \A h \in Conns : ~(ws[h].pc \in {"deliver", "tokens", "push"} /\ ws[h].doc = m)

\* every device token the recipient had when m was stored was pushed to
AllTokensPushed(m) ==
    \A d \in due : d[2] = m.content => d \in pushed

\* C7: for every stored message whose handling is over, and for which no push
\* raised, a push was attempted for every device token the recipient had
\* registered when the message was stored, whatever the live delivery did.
C7_PushRegardlessOfDelivery ==
    \A m \in Stored :
        (Finished(m) /\ m.content \notin pushfailed) => AllTokensPushed(m)

\* C8: a push that raises ends neither the fan-out nor the handler: every
\* token of the recipient is attempted, and the handler is not ended by it.
C8_PushFailureIsolated ==
    \A m \in Stored :
        m.content \in pushfailed
            => /\ \A h \in Conns : ~(ws[h].end = "push_failed" /\ ws[h].doc = m)
               /\ Finished(m) => AllTokensPushed(m)

\* a step of the middleware that answers an http request
HttpStep == now' = now /\ response'.status \in {200, 429} /\ <<response, requests, nlight>>' # <<response, requests, nlight>>

\* C9: an http request is answered 429 exactly when max_requests requests of
\* its user_id were admitted in the trailing window, and then nothing is
\* recorded; otherwise it is admitted and its timestamp recorded last; and
\* no user_id ever has more than max_requests admissions in one window.
C9_SlidingWindow ==
    /\ [](\A u \in Identities : Len(radmitted[u]) <= max_requests)
    /\ [][HttpStep =>
            LET u == response'.user_id IN
              /\ response'.status = 429 <=> Len(radmitted[u]) >= max_requests
              /\ response'.status = 429 => requests' = requests
              /\ response'.status = 200 =>
                    /\ requests'[u] # <<>>
                    /\ requests'[u][Len(requests'[u])] = now
                    /\ \A v \in Identities \ {u} : requests'[v] = requests[v]]_vars

\* the anonymous bucket is full with admissions of two different instants,
\* and its next request is rejected
C9_Witness ==
    /\ response = [user_id |-> "anonymous", status |-> 429]
    /\ Len(radmitted["anonymous"]) = max_requests
    /\ radmitted["anonymous"][1] = 0
    /\ radmitted["anonymous"][max_requests] = TickStep
    /\ now = TickStep

\* the step on which call c returns
Returns(c) == RunningRefresh(c) /\ rf'[c].pc = "idle"

\* a refresh of a stored, unexpired token that nothing overlaps succeeds: when
\* it returns the store is the store it found, less the old token's document,
\* plus one document holding the new token for the old token's user
RefreshRotates(c) ==
    (Returns(c) /\ rf[c].stored /\ rf[c].alone) =>
        /\ token_response' = [op |-> "refresh", refresh_token |-> rf[c].old,
                              status |-> 200, new |-> rf[c].new]
        /\ \E d \in tokens_collection' :
              /\ d.refresh_token = rf[c].new /\ d.user_id = rf[c].owner
              /\ d \notin rf[c].pre
              /\ FindToken(rf[c].pre, rf[c].new) = {}
              /\ tokens_collection' = (rf[c].pre \ FindToken(rf[c].pre, rf[c].old)) \cup {d}

\* a refresh of a token that a completed refresh has exchanged fails with an
\* error of the handler (401 as the code answers, or the 404 of the claim),
\* and none of its steps changes the store
RefreshOfUsedFails(c) ==
    (rf[c].used /\ rf'[c].pc # rf[c].pc) =>
        /\ tokens_collection' = tokens_collection
        /\ Returns(c) =>
              /\ token_response'.op = "refresh" /\ token_response'.refresh_token = rf[c].old
              /\ token_response'.status \in {401, 404} /\ token_response'.new = NoToken

\* C10: refresh(T) of a stored, unexpired T succeeds, deleting T and
\* inserting exactly one new token for the same user; a refresh(T) called
\* after that fails, and leaves the store unchanged.
C10_RefreshOnce ==
    [][\A c \in RefreshCalls : RefreshRotates(c) /\ RefreshOfUsedFails(c)]_vars

\* the step on which call c returns success
Succeeds(c) == Returns(c) /\ rf[c].pc = "insert"

\* C11: of the refresh calls presenting one token T, in any interleaving of
\* their find, delete and insert steps, at most one succeeds: no call
\* succeeds for a token that an earlier call has already exchanged.
C11_SingleUseUnderConcurrency ==
    [][\A c \in RefreshCalls : Succeeds(c) => rf[c].old \notin consumed]_vars

\* the step of a logout(token) that answers
LogoutAnswers(token) ==
    /\ token_response' # token_response
    /\ token_response'.op = "logout" /\ token_response'.refresh_token = token

\* logout(token) of a stored token deletes it; of an absent one it fails with
\* 404 and leaves the store as it was
RevokeDeletesOrFails(token) ==
    LogoutAnswers(token) =>
        IF FindToken(tokens_collection, token) # {}
        THEN /\ token_response'.status = 200
             /\ tokens_collection' = tokens_collection \ FindToken(tokens_collection, token)
        ELSE /\ token_response'.status = 404
             /\ tokens_collection' = tokens_collection

\* once a logout(token) has succeeded, a further logout(token) fails, and a
\* refresh(token) whose find_one runs from then on fails, the store unchanged
FailsAfterRevoke(token) ==
    token \in revoked =>
        /\ LogoutAnswers(token) => token_response'.status = 404
        /\ \A c \in RefreshCalls :
              (rf[c].pc = "find" /\ rf[c].old = token /\ rf'[c].pc # "find") =>
                  /\ Returns(c)
                  /\ token_response' = [op |-> "refresh", refresh_token |-> token,
                                        status |-> 401, new |-> NoToken]
                  /\ tokens_collection' = tokens_collection

\* C12: revoke(T) deletes T from the token store when T is present, and fails
\* with not-found (404), the store unchanged, when T is absent; after a
\* successful revoke(T), refresh(T) and a second revoke(T) both fail, and T
\* is never stored again.
C12_Revoke ==
    /\ [](\A token \in revoked : FindToken(tokens_collection, token) = {})
    /\ [][\A token \in 1..MaxIssued :
            RevokeDeletesOrFails(token) /\ FailsAfterRevoke(token)]_vars

\* a refresh of a revoked, unexpired, never exchanged token has just failed
C12_Witness ==
    /\ token_response.op = "refresh" /\ token_response.status = 401
    /\ token_response.refresh_token \in revoked \ consumed
    /\ today = 0
    /\ tokens_collection # {}

\* the websockets registered for user_id so far; a later one has a higher handle
RegisteredFor(user_id) == {h \in Conns : ws[h].pc # "idle" /\ ws[h].user_id = user_id}

\* the most recently registered websocket of user_id
MostRecent(user_id) ==
    CHOOSE h \in RegisteredFor(user_id) : \A g \in RegisteredFor(user_id) : g <= h

\* C13: the most recent registration for a user wins: whenever the user's
\* most recently registered connection is still open, the presence map
\* holds that connection's handle for the user, also after an older,
\* replaced connection of the user disconnects. (The map is a function of
\* the user, so it never holds two entries for one user.)
C13_MostRecentRegistrationWins ==
    \A u \in Users :
        (RegisteredFor(u) # {} /\ ws[MostRecent(u)].pc # "ended") =>
            active_connections[u] = MostRecent(u)

\* websocket_endpoint is running for user_id on some websocket
HandlerRunning(user_id) ==
    \E h \in RegisteredFor(user_id) : ws[h].pc # "ended"

\* C14: whenever a user's connection handler ends, for any reason (client
\* disconnect, or an error raised while persisting, delivering or pushing),
\* the user's presence entry is removed: no user has a presence entry
\* without a running connection handler.
C14_EntryRemovedWhenHandlerEnds ==
    \A u \in Users : active_connections[u] # NoConn => HandlerRunning(u)

\* C15: a failure of the sweep's delete_many is never fatal to the sweep
\* loop: the step on which a run fails leaves the loop alive, asleep until
\* 3600 s later, when it runs the sweep again.
C15_SweepFailureNotFatal ==
    /\ [](task_cleanup.pc # "raised")
    /\ [][(task_cleanup.pc = "run" /\ task_cleanup'.failed
             /\ task_cleanup'.pc \notin {"run", "cancelled"}) =>
            (task_cleanup'.pc = "sleep"
             /\ task_cleanup'.deadline = clock + cleanup_interval)]_vars

\* C16: a failure of a crossing-detection run is caught inside the loop:
\* the loop never ends by an exception, the step on which a run fails puts
\* the loop to sleep for 60 s, the next run starts when the 60 s are over,
\* and it does start unless the application shuts down first (or the
\* model's time is over); this holds for every run, however many failed.
C16_CrossingFailureCaught ==
    /\ [](task_crossing.pc # "raised")
    /\ [][(task_crossing.pc = "run" /\ task_crossing'.failed
             /\ task_crossing'.pc \notin {"run", "cancelled"}) =>
            (task_crossing'.pc = "sleep"
             /\ task_crossing'.deadline = clock + crossing_interval)]_vars
    /\ [][(task_crossing.pc = "sleep" /\ task_crossing'.pc = "run") =>
            clock = task_crossing.deadline]_vars
    /\ (task_crossing.pc = "sleep" /\ task_crossing.failed)
          ~> (\/ task_crossing.pc = "run"
              \/ lifespan_pc # "yield"
              \/ task_crossing.deadline > MaxLoopTime)

\* after MaxFails failed runs in a row, each 60 s after the one before, the
\* loop is in its next run
C16_Witness ==
    /\ task_crossing.pc = "run" /\ task_crossing.fails = MaxFails
    /\ clock = MaxFails * crossing_interval
    /\ lifespan_pc = "yield"

\* C17: shutdown cancels both loops and completes only after both have
\* ended, and it completes normally from every state of the loops, also
\* after a run of a loop has failed: lifespan never ends by an exception.
C17_ShutdownCompletes ==
    /\ lifespan_pc # "raised"
    /\ lifespan_pc = "done" => (Done(task_crossing) /\ Done(task_cleanup))

\* users a and b of the scanned collection both have a location, no more
\* than the threshold apart
Near(a, b) ==
    /\ scanned[a].located /\ scanned[b].located
    /\ haversine(scanned[a].lat, scanned[a].lng, scanned[b].lat, scanned[b].lng) <= radius_m

\* how many times the pair of a and b appears in the result, in either order
Occurrences(a, b) ==
    Cardinality({k \in DOMAIN detected : detected[k] \in {<<a, b>>, <<b, a>>}})

\* C18: one run of detect_crossings returns each unordered pair of distinct
\* located users no more than the threshold apart exactly once (never in
\* both orders), and no pair farther apart, no pair with a user that has no
\* location, and no pair of a user with itself.
C18_EachPairOnce ==
    /\ \A a, b \in DOMAIN scanned : (a < b /\ Near(a, b)) => Occurrences(a, b) = 1
    /\ \A k \in DOMAIN detected :
          /\ detected[k][1] \in DOMAIN scanned /\ detected[k][2] \in DOMAIN scanned
          /\ detected[k][1] # detected[k][2]
          /\ Near(detected[k][1], detected[k][2])

\* a run over located users of which two pairs are near and one pair is not
C18_Witness ==
    /\ Len(detected) = 2
    /\ \A a \in DOMAIN scanned : scanned[a].located
    /\ \E a, b \in DOMAIN scanned : a # b /\ ~Near(a, b)

\* C19: once a logout(T) has succeeded, no refresh token issued in exchange
\* for T is in the token store: a refresh(T) that read T before the logout
\* deleted it does not insert a new token afterwards.
C19_NoTokenForRevoked ==
    [][\A c \in RefreshCalls :
         (Succeeds(c) /\ rf[c].old \in revoked) =>
             FindToken(tokens_collection', rf[c].new) = {}]_vars

\* the unordered pair of users of call c
PairOf(c) == {larg[c][1], larg[c][2]}

\* C20: for each unordered pair {A,B} of distinct users at most one like call
\* ever returns matched, in every interleaving of like(A,B) and like(B,A):
\* the match push fan-out of the like endpoint runs at most once per pair.
C20_MatchedOncePerPair ==
    \A p \in LikeCalls, q \in LikeCalls :
        (p # q /\ lres[p] = "matched" /\ lres[q] = "matched"
              /\ larg[p][1] # larg[p][2])
            => PairOf(p) # PairOf(q)

\* C21: no user is ever matched with themselves: after any sequence of like
\* calls, like(A,A) among them, A is not in matchesOf(A), no like(A,A) has
\* returned matched, and no stored message has from_user = to_user.
C21_NoSelfMatch ==
    /\ \A a \in Users : a \notin matchesOf(a)
    /\ \A c \in LikeCalls : lres[c] = "matched" => larg[c][1] # larg[c][2]
    /\ \A m \in Stored : m.from_user # m.to_user

=============================================================================
